---- MODULE Spec2Model ----
(***************************************************************************)
(* A model of the German-English PDF translator service:                   *)
(*   src/src/de_en-translator_v2.py  (class PDFTranslator)                 *)
(*   src/src/api_server.py           (task table, background job)          *)
(*   src/offline_model_downloader.py (class ModelDownloader)               *)
(*                                                                         *)
(* Python strings are modelled as sequences of one-character strings.      *)
(* The MarianMT model is an external collaborator: its output is the       *)
(* operator MarianMT, and whether one invocation raises is an input of     *)
(* the action that makes the invocation.                                   *)
(***************************************************************************)
EXTENDS Integers, Sequences, FiniteSets, TLC

VARIABLES
    translation_cache,  \* PDFTranslator.translation_cache: key -> translation
    op,                 \* the method of PDFTranslator the caller is in ("none": no call)
    text,               \* argument of translate_text
    texts,              \* argument of translate_batch
    batch_size,         \* argument of translate_batch and of translate_pdf
    result,             \* the value the call returned
    submitted,          \* the invocations of the MarianMT model made by the call
    pc,                 \* translate_pdf: the stage the run is at ("off": no run)
    document,           \* translate_pdf: the spans of the input PDF, page by page
    pages_data,         \* translate_pdf: what extract_text_with_layout returned
    all_texts,          \* translate_pdf: the texts handed to translate_batch
    translation_map,    \* translate_pdf: original -> translated
    fit_args,           \* calculate_text_fit: its arguments
    fit_info,           \* calculate_text_fit: the dictionary it returned
    original_font,      \* get_suitable_font: its argument
    suitable_font,      \* get_suitable_font: the font name it returned
    preserve_formatting,\* translate_pdf: its argument
    page_idx,           \* create_translated_pdf: index of the page being rewritten
    redactions,         \* create_translated_pdf: the page's areas to redact
    replacements,       \* create_translated_pdf: the page's texts to insert
    loop_idx,           \* create_translated_pdf: position in the list being walked
    calls,              \* the calls made on the pymupdf document, in order
    output_written,     \* whether doc.save wrote the output file
    translation_tasks,  \* api_server.translation_tasks: task id -> task
    job,                \* per task id, where its perform_translation is
    files,              \* the files in the upload and output directories
    response,           \* the response to the latest HTTP request
    local_files,        \* ModelDownloader: file name -> state of the local file
    existed,            \* the files that were there when download_all_files began
    downloaded,         \* the files an attempt of download_file wrote to the end
    dl_pc,              \* download_all_files: where it is ("off": no run)
    file_idx,           \* download_all_files: position in required_files
    attempt,            \* download_file: the loop variable `attempt`
    success_count,      \* download_all_files: success_count
    dl_result           \* what download_all_files returned

trVars == <<translation_cache, op, text, texts, batch_size, result, submitted>>

pdfVars == <<pc, document, pages_data, all_texts, translation_map>>

fitVars == <<fit_args, fit_info>>

fontVars == <<original_font, suitable_font>>

\* the variables of the components added after the translator core
createVars == <<preserve_formatting, page_idx, redactions, replacements,
                loop_idx, calls, output_written>>

apiVars == <<translation_tasks, job, files, response>>

dlVars == <<local_files, existed, downloaded, dl_pc, file_idx, attempt,
            success_count, dl_result>>

extVars == <<fontVars, createVars, apiVars, dlVars>>

vars == <<trVars, pdfVars, fitVars, extVars>>

----------------------------------------------------------------------------
(* Bounds of the model. *)

MaxStrLen == 3      \* longest input string
MaxTexts == 2       \* longest list handed to translate_batch
MaxBatchSize == 2   \* largest batch_size

(* Program constants. *)

min_text_length == 2

----------------------------------------------------------------------------
(* Strings. *)

InputChars == {"a", "\t"}

Whitespace == {" ", "\t"}

StringsUpTo(n) == UNION {[1..k -> InputChars] : k \in 0..n}

Strings == StringsUpTo(MaxStrLen)

Min(a, b) == IF a <= b THEN a ELSE b

\* str.strip(): drop leading and trailing whitespace
strip(s) ==
    LET inked == {i \in 1..Len(s) : s[i] \notin Whitespace}
    IN  IF inked = {} THEN <<>>
        ELSE LET first == CHOOSE i \in inked : \A j \in inked : i <= j
                 last == CHOOSE i \in inked : \A j \in inked : j <= i
             IN  SubSeq(s, first, last)

RECURSIVE lstrip(_)
lstrip(s) == IF s # <<>> /\ s[1] \in Whitespace THEN lstrip(Tail(s)) ELSE s

\* re.sub(r'\s+', ' ', s): every maximal run of whitespace becomes one space
RECURSIVE re_sub_ws(_)
re_sub_ws(s) ==
    IF s = <<>> THEN <<>>
    ELSE IF s[1] \in Whitespace THEN <<" ">> \o re_sub_ws(lstrip(s))
    ELSE <<s[1]>> \o re_sub_ws(Tail(s))

\* a filter that measures the untrimmed text
IsShort_no_strip(s) == s = <<>> \/ Len(s) < min_text_length

\* `not text or len(text.strip()) < self.min_text_length`
IsShort(s) == s = <<>> \/ Len(strip(s)) < min_text_length

----------------------------------------------------------------------------
(* The external translator: tokenizer, model.generate, tokenizer.decode.   *)
(* A deterministic function of the text it is given.                       *)

MarianMT(s) == [i \in 1..Len(s) |-> IF s[i] = "a" THEN "e" ELSE s[i]]

EmptyCache == [k \in {} |-> <<>>]

\* self.translation_cache[key] = value
CachePut(cache, key, value) ==
    [k \in DOMAIN cache \cup {key} |-> IF k = key THEN value ELSE cache[k]]

\* one invocation of the model, as the call log records it
Invocation(sent, ok) == [sent |-> sent, ok |-> ok]

----------------------------------------------------------------------------
(* PDFTranslator.translate_text.  `ok` says whether the invocation of the  *)
(* model (tokenizer / generate / decode) returns; when it raises, the      *)
(* except clause returns the local `text`, which line 102 has rebound to   *)
(* the normalised string.                                                  *)

\* a translate_text that never writes the cache
translate_text_no_cache_write(txt, cache, ok) ==
    IF IsShort(txt)
    THEN [result |-> txt, cache |-> cache, submitted |-> <<>>]
    ELSE LET cleaned == re_sub_ws(strip(txt))
             text_key == strip(cleaned)
         IN  IF text_key \in DOMAIN cache
             THEN [result |-> cache[text_key], cache |-> cache, submitted |-> <<>>]
             ELSE IF ok
             THEN [result |-> MarianMT(cleaned), cache |-> cache,
                   submitted |-> <<Invocation(<<cleaned>>, TRUE)>>]
             ELSE [result |-> cleaned, cache |-> cache,
                   submitted |-> <<Invocation(<<cleaned>>, FALSE)>>]

translate_text(txt, cache, ok) ==
    IF IsShort(txt)
    THEN [result |-> txt, cache |-> cache, submitted |-> <<>>]
    ELSE LET cleaned == re_sub_ws(strip(txt))
             text_key == strip(cleaned)
         IN  IF text_key \in DOMAIN cache
             THEN [result |-> cache[text_key], cache |-> cache, submitted |-> <<>>]
             ELSE IF ok
             THEN [result |-> MarianMT(cleaned),
                   cache |-> CachePut(cache, text_key, MarianMT(cleaned)),
                   submitted |-> <<Invocation(<<cleaned>>, TRUE)>>]
             ELSE [result |-> cleaned, cache |-> cache,
                   submitted |-> <<Invocation(<<cleaned>>, FALSE)>>]

----------------------------------------------------------------------------
(* PDFTranslator.translate_batch.  Python's 0-based positions j within a   *)
(* chunk are the 1-based positions j+1 here.                               *)

\* the filter loop: (position, cleaned text) of every entry long enough
RECURSIVE valid_from(_, _)
valid_from(batch, j) ==
    IF j > Len(batch) THEN <<>>
    ELSE (IF ~IsShort(batch[j])
          THEN << <<j, re_sub_ws(strip(batch[j]))>> >>
          ELSE <<>>) \o valid_from(batch, j + 1)

valid_texts(batch) == valid_from(batch, 1)

\* a map_back that keys the cache by the untrimmed original
RECURSIVE map_back_untrimmed_key(_, _, _, _, _)
map_back_untrimmed_key(batch, valid, translated, batch_results, cache) ==
    IF valid = <<>> \/ translated = <<>>
    THEN [results |-> batch_results, cache |-> cache]
    ELSE LET orig_idx == valid[1][1]
             translation == translated[1]
         IN  map_back_untrimmed_key(batch, Tail(valid), Tail(translated),
                      [batch_results EXCEPT ![orig_idx] = translation],
                      CachePut(cache, batch[orig_idx], translation))

\* a map_back that puts the k-th translation at position k of the chunk
RECURSIVE map_back_by_rank(_, _, _, _, _)
map_back_by_rank(batch, valid, translated, batch_results, cache) ==
    IF valid = <<>> \/ translated = <<>>
    THEN [results |-> batch_results, cache |-> cache]
    ELSE LET k == Len(valid_texts(batch)) - Len(valid) + 1
             translation == translated[1]
             original_text == strip(batch[valid[1][1]])
         IN  map_back_by_rank(batch, Tail(valid), Tail(translated),
                      [batch_results EXCEPT ![k] = translation],
                      CachePut(cache, original_text, translation))

\* the loop over zip(valid_texts, translated_texts)
RECURSIVE map_back(_, _, _, _, _)
map_back(batch, valid, translated, batch_results, cache) ==
    IF valid = <<>> \/ translated = <<>>
    THEN [results |-> batch_results, cache |-> cache]
    ELSE LET orig_idx == valid[1][1]
             translation == translated[1]
             original_text == strip(batch[orig_idx])
         IN  map_back(batch, Tail(valid), Tail(translated),
                      [batch_results EXCEPT ![orig_idx] = translation],
                      CachePut(cache, original_text, translation))

\* a chunk body that returns only the translations, dropping short entries
translate_chunk_drops_short(batch, cache, ok) ==
    LET valid == valid_texts(batch)
        texts_to_translate == [k \in 1..Len(valid) |-> valid[k][2]]
    IN  IF valid = <<>>
        THEN [results |-> batch, cache |-> cache, submitted |-> <<>>]
        ELSE IF ok
        THEN LET translated_texts ==
                     [k \in 1..Len(valid) |-> MarianMT(texts_to_translate[k])]
                 m == map_back(batch, valid, translated_texts, batch, cache)
             IN  [results |-> translated_texts, cache |-> m.cache,
                  submitted |-> <<Invocation(texts_to_translate, TRUE)>>]
        ELSE [results |-> batch, cache |-> cache,
              submitted |-> <<Invocation(texts_to_translate, FALSE)>>]

\* a chunk body that falls back to the cleaned texts, not the originals
translate_chunk_cleaned_on_failure(batch, cache, ok) ==
    LET valid == valid_texts(batch)
        texts_to_translate == [k \in 1..Len(valid) |-> valid[k][2]]
    IN  IF valid = <<>>
        THEN [results |-> batch, cache |-> cache, submitted |-> <<>>]
        ELSE IF ok
        THEN LET translated_texts ==
                     [k \in 1..Len(valid) |-> MarianMT(texts_to_translate[k])]
                 m == map_back(batch, valid, translated_texts, batch, cache)
             IN  [results |-> m.results, cache |-> m.cache,
                  submitted |-> <<Invocation(texts_to_translate, TRUE)>>]
        ELSE [results |-> [j \in 1..Len(batch) |->
                             IF IsShort(batch[j]) THEN batch[j]
                             ELSE re_sub_ws(strip(batch[j]))],
              cache |-> cache,
              submitted |-> <<Invocation(texts_to_translate, FALSE)>>]

\* a chunk body that caches the untranslated originals when the model raises
translate_chunk_caches_fallback(batch, cache, ok) ==
    LET valid == valid_texts(batch)
        texts_to_translate == [k \in 1..Len(valid) |-> valid[k][2]]
    IN  IF valid = <<>>
        THEN [results |-> batch, cache |-> cache, submitted |-> <<>>]
        ELSE IF ok
        THEN LET translated_texts ==
                     [k \in 1..Len(valid) |-> MarianMT(texts_to_translate[k])]
                 m == map_back(batch, valid, translated_texts, batch, cache)
             IN  [results |-> m.results, cache |-> m.cache,
                  submitted |-> <<Invocation(texts_to_translate, TRUE)>>]
        ELSE [results |-> batch,
              cache |-> map_back(batch, valid, texts_to_translate, batch, cache).cache,
              submitted |-> <<Invocation(texts_to_translate, FALSE)>>]

\* the body of the chunk loop for one chunk
translate_chunk(batch, cache, ok) ==
    LET valid == valid_texts(batch)
        texts_to_translate == [k \in 1..Len(valid) |-> valid[k][2]]
    IN  IF valid = <<>>
        THEN [results |-> batch, cache |-> cache, submitted |-> <<>>]
        ELSE IF ok
        THEN LET translated_texts ==
                     [k \in 1..Len(valid) |-> MarianMT(texts_to_translate[k])]
                 m == map_back(batch, valid, translated_texts, batch, cache)
             IN  [results |-> m.results, cache |-> m.cache,
                  submitted |-> <<Invocation(texts_to_translate, TRUE)>>]
        ELSE [results |-> batch, cache |-> cache,
              submitted |-> <<Invocation(texts_to_translate, FALSE)>>]

\* texts[i:i + batch_size], i counted from 0
Chunk(txts, i, n) == SubSeq(txts, i + 1, Min(i + n, Len(txts)))

\* the chunks of translate_batch, numbered from 0
ChunkNumbers(txts, n) == {c \in 0..Len(txts) : c * n < Len(txts)}

\* for i in range(0, len(texts), batch_size); the model raises in the
\* chunks whose number is in `fails`
RECURSIVE batch_loop(_, _, _, _, _, _, _)
batch_loop(txts, n, i, results, cache, sent, fails) ==
    IF i >= Len(txts)
    THEN [result |-> results, cache |-> cache, submitted |-> sent]
    ELSE LET c == translate_chunk(Chunk(txts, i, n), cache, (i \div n) \notin fails)
         IN  batch_loop(txts, n, i + n, results \o c.results, c.cache,
                        sent \o c.submitted, fails)

translate_batch(txts, n, cache, fails) ==
    IF txts = <<>>
    THEN [result |-> <<>>, cache |-> cache, submitted |-> <<>>]
    ELSE batch_loop(txts, n, 0, <<>>, cache, <<>>, fails)

----------------------------------------------------------------------------
(* A client of one PDFTranslator object: it calls translate_text and       *)
(* translate_batch, one call at a time, on the shared cache.               *)

TextLists == UNION {[1..k -> Strings] : k \in 0..MaxTexts}

NoCall ==
    /\ op = "none"
    /\ text = <<>>
    /\ texts = <<>>
    /\ batch_size = 0
    /\ result = <<>>
    /\ submitted = <<>>

\* no translate_pdf run
NoPdf ==
    /\ pc = "off"
    /\ document = <<>>
    /\ pages_data = <<>>
    /\ all_texts = <<>>
    /\ translation_map = EmptyCache

\* no download_all_files run
NoDl ==
    /\ local_files = <<>>
    /\ existed = {}
    /\ downloaded = {}
    /\ dl_pc = "off"
    /\ file_idx = 0
    /\ attempt = 0
    /\ success_count = 0
    /\ dl_result = <<>>

\* the API server is not running
NoApi ==
    /\ translation_tasks = <<>>
    /\ job = <<>>
    /\ files = {}
    /\ response = <<>>

\* create_translated_pdf has not started
NoRewrite ==
    /\ page_idx = 0
    /\ redactions = <<>>
    /\ replacements = <<>>
    /\ loop_idx = 0
    /\ calls = <<>>
    /\ output_written = FALSE

\* no create_translated_pdf call
NoCreate ==
    /\ preserve_formatting = TRUE
    /\ NoRewrite

\* no get_suitable_font call
NoFont ==
    /\ original_font = <<>>
    /\ suitable_font = <<>>

\* none of the later components is active
NoExt == NoFont /\ NoCreate /\ NoApi /\ NoDl

\* no calculate_text_fit call
NoFit ==
    /\ fit_args = <<>>
    /\ fit_info = <<>>

Init ==
    /\ translation_cache = EmptyCache
    /\ NoCall
    /\ NoPdf
    /\ NoFit
    /\ NoExt

TranslateText ==
    /\ op = "none"
    /\ \E t \in Strings, ok \in BOOLEAN :
          LET r == translate_text(t, translation_cache, ok)
          IN  /\ op' = "translate_text"
              /\ text' = t
              /\ result' = r.result
              /\ translation_cache' = r.cache
              /\ submitted' = r.submitted
    /\ UNCHANGED <<texts, batch_size, pdfVars, fitVars, extVars>>

TranslateBatch ==
    /\ op = "none"
    /\ \E ts \in TextLists, n \in 1..MaxBatchSize :
          \E fails \in SUBSET ChunkNumbers(ts, n) :
             LET r == translate_batch(ts, n, translation_cache, fails)
             IN  /\ op' = "translate_batch"
                 /\ texts' = ts
                 /\ batch_size' = n
                 /\ result' = r.result
                 /\ translation_cache' = r.cache
                 /\ submitted' = r.submitted
    /\ UNCHANGED <<text, pdfVars, fitVars, extVars>>

\* the call returns to the client; the cache stays
Return ==
    /\ op # "none"
    /\ op' = "none"
    /\ text' = <<>>
    /\ texts' = <<>>
    /\ batch_size' = 0
    /\ result' = <<>>
    /\ submitted' = <<>>
    /\ UNCHANGED <<translation_cache, pdfVars, fitVars, extVars>>

Next == TranslateText \/ TranslateBatch \/ Return

Spec == Init /\ [][Next]_vars

----------------------------------------------------------------------------
(* One call of translate_text or translate_batch on a new PDFTranslator.   *)

NextCall == TranslateText \/ TranslateBatch

SpecCall == Init /\ [][NextCall]_vars

----------------------------------------------------------------------------
(* A client that only calls translate_text, again and again: the state     *)
(* shows the latest call, so a step relates two consecutive calls.         *)

TranslateTextAgain ==
    /\ op \in {"none", "translate_text"}
    /\ \E t \in Strings, ok \in BOOLEAN :
          LET r == translate_text(t, translation_cache, ok)
          IN  /\ op' = "translate_text"
              /\ text' = t
              /\ result' = r.result
              /\ translation_cache' = r.cache
              /\ submitted' = r.submitted
    /\ UNCHANGED <<texts, batch_size, pdfVars, fitVars, extVars>>

NextText == TranslateTextAgain

SpecText == Init /\ [][NextText]_vars

----------------------------------------------------------------------------
(* PDFTranslator.calculate_text_fit.  Python's floats are modelled as      *)
(* exact fractions <<numerator, denominator>>, denominator > 0; rounding   *)
(* is not modelled.                                                        *)

FromInt(n) == <<n, 1>>

RMul(a, b) == <<a[1] * b[1], a[2] * b[2]>>

\* a / b for b > 0
RDiv(a, b) == <<a[1] * b[2], a[2] * b[1]>>

RLt(a, b) == a[1] * b[2] < b[1] * a[2]

RLe(a, b) == a[1] * b[2] <= b[1] * a[2]

REq(a, b) == a[1] * b[2] = b[1] * a[2]

RMax(a, b) == IF RLt(a, b) THEN b ELSE a

RAdd(a, b) == <<a[1] * b[2] + b[1] * a[2], a[2] * b[2]>>

\* the 6 of max(6, font_size * 0.7)
min_font_floor == 6

\* a calculate_text_fit whose `fits` is taken after the font is adjusted
calculate_text_fit_fits_after_adjust(original_text, translated_text, bbox, font_size) ==
    LET available_width == FromInt(bbox[3] - bbox[1])
        avg_char_width == RMul(FromInt(font_size), <<6, 10>>)
        translated_width == RMul(FromInt(Len(translated_text)), avg_char_width)
        min_font_size == RMax(FromInt(min_font_floor),
                              RMul(FromInt(font_size), <<7, 10>>))
        shrink == RLt(available_width, translated_width)
                     /\ RLt(FromInt(0), available_width)
        scaled == RMul(FromInt(font_size), RDiv(available_width, translated_width))
        adjusted_font_size ==
            IF shrink THEN RMax(scaled, min_font_size) ELSE FromInt(font_size)
    IN  [fits |-> RLe(RMul(FromInt(Len(translated_text)),
                           RMul(adjusted_font_size, <<6, 10>>)),
                      available_width),
         scale_factor |-> RDiv(adjusted_font_size, FromInt(font_size)),
         adjusted_font_size |-> adjusted_font_size,
         original_width |-> RMul(FromInt(Len(original_text)), avg_char_width),
         translated_width |-> translated_width,
         available_width |-> available_width]

\* a calculate_text_fit without the floor on the scaled size
calculate_text_fit_no_floor(original_text, translated_text, bbox, font_size) ==
    LET available_width == FromInt(bbox[3] - bbox[1])
        avg_char_width == RMul(FromInt(font_size), <<6, 10>>)
        translated_width == RMul(FromInt(Len(translated_text)), avg_char_width)
        shrink == RLt(available_width, translated_width)
                     /\ RLt(FromInt(0), available_width)
        scale_factor == IF shrink THEN RDiv(available_width, translated_width)
                        ELSE FromInt(1)
    IN  [fits |-> RLe(translated_width, available_width),
         scale_factor |-> scale_factor,
         adjusted_font_size |-> RMul(FromInt(font_size), scale_factor),
         original_width |-> RMul(FromInt(Len(original_text)), avg_char_width),
         translated_width |-> translated_width,
         available_width |-> available_width]

calculate_text_fit(original_text, translated_text, bbox, font_size) ==
    LET x0 == bbox[1]
        x1 == bbox[3]
        available_width == FromInt(x1 - x0)
        avg_char_width == RMul(FromInt(font_size), <<6, 10>>)
        original_width == RMul(FromInt(Len(original_text)), avg_char_width)
        translated_width == RMul(FromInt(Len(translated_text)), avg_char_width)
        scaled == RMul(FromInt(font_size), RDiv(available_width, translated_width))
        min_font_size == RMax(FromInt(min_font_floor),
                              RMul(FromInt(font_size), <<7, 10>>))
        out(scale_factor, adjusted_font_size) ==
            [fits |-> RLe(translated_width, available_width),
             scale_factor |-> scale_factor,
             adjusted_font_size |-> adjusted_font_size,
             original_width |-> original_width,
             translated_width |-> translated_width,
             available_width |-> available_width]
    IN  IF RLt(available_width, translated_width) /\ RLt(FromInt(0), available_width)
        THEN IF RLt(scaled, min_font_size)
             THEN out(RDiv(min_font_size, FromInt(font_size)), min_font_size)
             ELSE out(RDiv(available_width, translated_width), scaled)
        ELSE out(FromInt(1), FromInt(font_size))

(* Bounds of the inputs of calculate_text_fit. *)

MaxFontSize == 12   \* font sizes 1..MaxFontSize
MaxX == 30          \* x1 of a bbox
MaxFitLen == 6      \* longest translated text

FontSizes == 1..MaxFontSize

\* (x0, y0, x1, y1); x1 < x0 is a box the code accepts as well
BBoxes == {<<x0, 0, x1, 20>> : x0 \in {0, 10}, x1 \in 0..MaxX}

FitTexts == {[i \in 1..k |-> "e"] : k \in 0..MaxFitLen}

FitArgs ==
    [original_text : {<<"a">>, <<"a", "a">>},
     translated_text : FitTexts,
     bbox : BBoxes,
     font_size : FontSizes]

InitFit ==
    /\ translation_cache = EmptyCache
    /\ NoCall
    /\ NoPdf
    /\ NoExt
    /\ fit_args \in FitArgs
    /\ fit_info = <<>>

CalculateTextFit ==
    /\ fit_args # <<>>
    /\ fit_info = <<>>
    /\ fit_info' = calculate_text_fit(fit_args.original_text, fit_args.translated_text,
                                      fit_args.bbox, fit_args.font_size)
    /\ UNCHANGED <<fit_args, trVars, pdfVars, extVars>>

NextFit == CalculateTextFit

SpecFit == InitFit /\ [][NextFit]_vars

----------------------------------------------------------------------------
(* get_suitable_font (lines 259-272).  Font names are Python strings, so   *)
(* sequences of characters; `in` on strings is substring search.           *)

MaxFontParts == 2   \* a font name is made of at most this many parts

UpperCase == <<"A", "B", "C", "D", "E", "F", "G", "H", "I", "J", "K", "L", "M",
               "N", "O", "P", "Q", "R", "S", "T", "U", "V", "W", "X", "Y", "Z">>

LowerCase == <<"a", "b", "c", "d", "e", "f", "g", "h", "i", "j", "k", "l", "m",
               "n", "o", "p", "q", "r", "s", "t", "u", "v", "w", "x", "y", "z">>

\* str.lower()
lower(s) ==
    [i \in 1..Len(s) |->
        IF \E k \in 1..26 : UpperCase[k] = s[i]
        THEN LowerCase[CHOOSE k \in 1..26 : UpperCase[k] = s[i]]
        ELSE s[i]]

\* needle in hay, for strings
Contains(needle, hay) ==
    \E i \in 0..(Len(hay) - Len(needle)) :
        SubSeq(hay, i + 1, i + Len(needle)) = needle

Times_Roman == <<"T", "i", "m", "e", "s", "-", "R", "o", "m", "a", "n">>
Helvetica == <<"H", "e", "l", "v", "e", "t", "i", "c", "a">>
Arial == <<"A", "r", "i", "a", "l">>
Courier == <<"C", "o", "u", "r", "i", "e", "r">>

\* self.font_substitution_map (lines 43-49)
font_substitution_map ==
    [f \in {Times_Roman, Helvetica, Arial, Courier} |-> f]

kw_times == <<"t", "i", "m", "e", "s">>
kw_serif == <<"s", "e", "r", "i", "f">>
kw_helvetica == <<"h", "e", "l", "v", "e", "t", "i", "c", "a">>
kw_arial == <<"a", "r", "i", "a", "l">>
kw_courier == <<"c", "o", "u", "r", "i", "e", "r">>
kw_mono == <<"m", "o", "n", "o">>

\* a get_suitable_font that looks for courier/mono before times/serif
get_suitable_font_courier_first(font) ==
    IF font \in DOMAIN font_substitution_map
    THEN font_substitution_map[font]
    ELSE IF Contains(kw_courier, lower(font)) \/ Contains(kw_mono, lower(font))
    THEN Courier
    ELSE IF Contains(kw_times, lower(font)) \/ Contains(kw_serif, lower(font))
    THEN Times_Roman
    ELSE IF Contains(kw_helvetica, lower(font)) \/ Contains(kw_arial, lower(font))
    THEN Helvetica
    ELSE Helvetica

get_suitable_font(font) ==
    IF font \in DOMAIN font_substitution_map
    THEN font_substitution_map[font]
    ELSE IF Contains(kw_times, lower(font)) \/ Contains(kw_serif, lower(font))
    THEN Times_Roman
    ELSE IF Contains(kw_helvetica, lower(font)) \/ Contains(kw_arial, lower(font))
    THEN Helvetica
    ELSE IF Contains(kw_courier, lower(font)) \/ Contains(kw_mono, lower(font))
    THEN Courier
    ELSE Helvetica

\* the parts font names of the input PDF are made of
FontParts ==
    {<<"T", "i", "m", "e", "s">>,
     <<"T", "I", "M", "E", "S">>,
     <<"T", "i">>,
     <<"m", "e", "s">>,
     <<"S", "e", "r", "i", "f">>,
     <<"H", "e", "l", "v", "e", "t", "i", "c", "a">>,
     <<"A", "r", "i", "a", "l">>,
     <<"A", "R", "I", "A", "L">>,
     <<"C", "o", "u", "r", "i", "e", "r">>,
     <<"M", "o", "n", "o">>,
     <<"S", "a", "n", "s">>,
     <<"-", "R", "o", "m", "a", "n">>,
     <<"-", "B", "o", "l", "d">>}

RECURSIVE FontNamesOf(_)
FontNamesOf(n) ==
    IF n = 0 THEN {<<>>}
    ELSE FontNamesOf(n - 1)
            \cup {a \o b : a \in FontNamesOf(n - 1), b \in FontParts}

FontNames == FontNamesOf(MaxFontParts)

InitFont ==
    /\ translation_cache = EmptyCache
    /\ NoCall
    /\ NoPdf
    /\ NoFit
    /\ NoCreate
    /\ NoApi
    /\ NoDl
    /\ original_font \in FontNames
    /\ suitable_font = <<>>

GetSuitableFont ==
    /\ suitable_font = <<>>
    /\ suitable_font' = get_suitable_font(original_font)
    /\ UNCHANGED <<original_font, trVars, pdfVars, fitVars, createVars, apiVars, dlVars>>

NextFont == GetSuitableFont

SpecFont == InitFont /\ [][NextFont]_vars

----------------------------------------------------------------------------
(* PDFTranslator.translate_pdf: load the model, extract the text, collect  *)
(* and translate the texts, build the translation map.  Opening the PDF    *)
(* and loading the model are external: whether they raise is an input of   *)
(* the step.  `result` is the value translate_pdf returns.                 *)

MaxPages == 2       \* pages of a document
MaxSpans == 2       \* spans of a page

\* the text of a span: long enough, with an inner tab, padded, too short, blank
SpanTexts ==
    {<<"a", "a">>, <<"a", "a", "a">>, <<"a", "\t", "a">>, <<"\t", "a", "a">>,
     <<"a">>, <<"\t">>}

\* the span of the input PDF with text t: a box 10 wide, size 10; the
\* two-character texts are black Times-Roman, the others blue ArialMT
SpanOf(t) ==
    [text |-> t,
     bbox |-> <<0, 0, 10, 20>>,
     font |-> IF Len(t) = 2 THEN Times_Roman ELSE Arial \o <<"M", "T">>,
     size |-> 10,
     color |-> IF Len(t) = 2 THEN 0 ELSE 255]

Spans == {SpanOf(t) : t \in SpanTexts}

Pages == UNION {[1..k -> Spans] : k \in 0..MaxSpans}

Documents == UNION {[1..k -> Pages] : k \in 0..MaxPages}

\* the spans of a page that extract_text_with_layout keeps
text_elements(page) == SelectSeq(page, LAMBDA span : strip(span.text) # <<>>)

extract_text_with_layout(doc) ==
    [p \in 1..Len(doc) |->
        [page_number |-> p - 1, text_elements |-> text_elements(doc[p])]]

\* the texts one page adds to all_texts
RECURSIVE page_texts(_)
page_texts(elements) ==
    IF elements = <<>> THEN <<>>
    ELSE LET t == strip(elements[1].text)
         IN  (IF t # <<>> /\ Len(t) >= min_text_length THEN <<t>> ELSE <<>>)
                 \o page_texts(Tail(elements))

\* the loop that fills all_texts (text_to_element_map is filled and never read)
RECURSIVE collect_texts(_)
collect_texts(pages) ==
    IF pages = <<>> THEN <<>>
    ELSE page_texts(pages[1].text_elements) \o collect_texts(Tail(pages))

\* the loop over zip(all_texts, translated_texts): the last pair of a text wins
build_translation_map(originals, translated) ==
    LET n == Min(Len(originals), Len(translated))
        last(t) == CHOOSE i \in 1..n :
                      /\ originals[i] = t
                      /\ \A j \in 1..n : originals[j] = t => j <= i
    IN  [t \in {originals[i] : i \in 1..n} |-> translated[last(t)]]

InitPdf ==
    /\ translation_cache = EmptyCache
    /\ op = "translate_pdf"
    /\ text = <<>>
    /\ texts = <<>>
    /\ batch_size \in 1..MaxBatchSize
    /\ result = <<>>
    /\ submitted = <<>>
    /\ pc = "load"
    /\ document \in Documents
    /\ pages_data = <<>>
    /\ all_texts = <<>>
    /\ translation_map = EmptyCache
    /\ NoFit
    /\ NoFont
    /\ NoApi
    /\ NoDl
    /\ preserve_formatting \in BOOLEAN
    /\ NoRewrite

\* one call on the pymupdf document and how it ended
Call(fn, page, arg, status) ==
    [fn |-> fn, page |-> page, arg |-> arg, status |-> status]

\* if self.model is None: self.load_model()
PdfLoadModel ==
    /\ pc = "load"
    /\ \E ok \in BOOLEAN :
          IF ok THEN pc' = "extract" /\ result' = result
          ELSE pc' = "done" /\ result' = FALSE
    /\ UNCHANGED <<translation_cache, op, text, texts, batch_size, submitted,
                   document, pages_data, all_texts, translation_map, fitVars, extVars>>

\* the calls extract_text_with_layout makes on a document of n pages when
\* the call numbered `fail` raises: -1 is pymupdf.open, p the get_text of
\* page p, n no call at all
extract_calls(n, fail) ==
    <<Call("open", -1, <<>>, IF fail = -1 THEN "raises" ELSE "ok")>>
    \o (IF fail = -1 THEN <<>>
        ELSE [p \in 1..Min(n, fail + 1) |->
                 Call("get_text", p - 1, <<>>,
                      IF p - 1 = fail THEN "raises" ELSE "ok")])

\* a translate_pdf that goes on with the pages read so far when the
\* extraction raises
PdfExtract_swallows_failure ==
    /\ pc = "extract"
    /\ \E fail \in -1..Len(document) :
          /\ calls' = calls \o extract_calls(Len(document), fail)
          /\ pc' = "translate"
          /\ pages_data' = extract_text_with_layout(
                              SubSeq(document, 1, IF fail = -1 THEN 0 ELSE fail))
          /\ result' = result
    /\ UNCHANGED <<translation_cache, op, text, texts, batch_size, submitted,
                   document, all_texts, translation_map, fitVars, fontVars,
                   preserve_formatting, page_idx, redactions, replacements,
                   loop_idx, output_written, apiVars, dlVars>>

\* pages_data = self.extract_text_with_layout(input_path); an exception is
\* re-raised (line 221) and ends translate_pdf in its except clause
PdfExtract ==
    /\ pc = "extract"
    /\ \E fail \in -1..Len(document) :
          /\ calls' = calls \o extract_calls(Len(document), fail)
          /\ IF fail = Len(document)
             THEN /\ pc' = "translate"
                  /\ pages_data' = extract_text_with_layout(document)
                  /\ result' = result
             ELSE /\ pc' = "done"
                  /\ pages_data' = pages_data
                  /\ result' = FALSE
    /\ UNCHANGED <<translation_cache, op, text, texts, batch_size, submitted,
                   document, all_texts, translation_map, fitVars, fontVars,
                   preserve_formatting, page_idx, redactions, replacements,
                   loop_idx, output_written, apiVars, dlVars>>

\* collect all_texts, translate_batch(all_texts, batch_size), translation_map
PdfTranslate ==
    /\ pc = "translate"
    /\ LET collected == collect_texts(pages_data)
       IN  \E fails \in SUBSET ChunkNumbers(collected, batch_size) :
              LET r == translate_batch(collected, batch_size, translation_cache, fails)
              IN  /\ all_texts' = collected
                  /\ translation_cache' = r.cache
                  /\ submitted' = r.submitted
                  /\ translation_map' =
                        IF collected # <<>>
                        THEN build_translation_map(collected, r.result)
                        ELSE EmptyCache
    /\ pc' = "create"
    /\ UNCHANGED <<op, text, texts, batch_size, result, document, pages_data, fitVars, extVars>>

----------------------------------------------------------------------------
(* PDFTranslator.create_translated_pdf (lines 320-408).  The pymupdf       *)
(* document is an external collaborator: `calls` is the sequence of calls  *)
(* made on it, each with the way it ended ("ok", "raises", or "negative"   *)
(* for an insert_text that returns a negative number).                     *)

\* an element step without the test that the translation differs
element_edits_no_skip(element, tmap, preserve) ==
    LET original_text == strip(element.text)
    IN  IF original_text \in DOMAIN tmap
        THEN LET translated_text == tmap[original_text]
                 bbox == element.bbox
                 fit == calculate_text_fit(original_text, translated_text,
                                           bbox, element.size)
                 font_name == get_suitable_font(element.font)
                 font_size == IF preserve THEN fit.adjusted_font_size
                              ELSE FromInt(element.size)
             IN  [redactions |-> <<bbox>>,
                  replacements |->
                     <<[text |-> translated_text,
                        point |-> <<FromInt(bbox[1]),
                                    RAdd(FromInt(bbox[2]),
                                         RMul(font_size, <<8, 10>>))>>,
                        font |-> font_name,
                        font_size |-> font_size,
                        color |-> element.color]>>]
        ELSE [redactions |-> <<>>, replacements |-> <<>>]

\* lines 339-361 for one element: the areas and texts it adds to the lists
element_edits(element, tmap, preserve) ==
    LET original_text == strip(element.text)
    IN  IF original_text \in DOMAIN tmap /\ original_text # tmap[original_text]
        THEN LET translated_text == tmap[original_text]
                 bbox == element.bbox
                 fit == calculate_text_fit(original_text, translated_text,
                                           bbox, element.size)
                 font_name == get_suitable_font(element.font)
                 font_size == IF preserve THEN fit.adjusted_font_size
                              ELSE FromInt(element.size)
             IN  [redactions |-> <<bbox>>,
                  replacements |->
                     <<[text |-> translated_text,
                        point |-> <<FromInt(bbox[1]),
                                    RAdd(FromInt(bbox[2]),
                                         RMul(font_size, <<8, 10>>))>>,
                        font |-> font_name,
                        font_size |-> font_size,
                        color |-> element.color]>>]
        ELSE [redactions |-> <<>>, replacements |-> <<>>]

\* the loop over page_data['text_elements'] (lines 335-361)
RECURSIVE page_edits(_, _, _)
page_edits(elements, tmap, preserve) ==
    IF elements = <<>>
    THEN [redactions |-> <<>>, replacements |-> <<>>]
    ELSE LET e == element_edits(elements[1], tmap, preserve)
             rest == page_edits(Tail(elements), tmap, preserve)
         IN  [redactions |-> e.redactions \o rest.redactions,
              replacements |-> e.replacements \o rest.replacements]

\* lines 374-380: the colour handed to insert_text
text_color(color_val) ==
    IF color_val # 0
    THEN << <<(color_val \div 65536) % 256, 255>>,
            <<(color_val \div 256) % 256, 255>>,
            <<color_val % 256, 255>> >>
    ELSE <<FromInt(0), FromInt(0), FromInt(0)>>

\* a page loop that goes from the redaction areas straight to the insertions
after_redactions_no_apply(rects, repls) ==
    IF repls # <<>> THEN "insert" ELSE "end_page"

\* where the page loop goes once the list being walked is exhausted
after_redactions(rects, repls) ==
    IF rects # <<>> THEN "apply"
    ELSE IF repls # <<>> THEN "insert" ELSE "end_page"

\* doc = pymupdf.open(input_path)
PdfOpen ==
    /\ pc = "create"
    /\ \E ok \in BOOLEAN :
          /\ calls' = Append(calls, Call("open", -1, <<>>,
                                         IF ok THEN "ok" ELSE "raises"))
          /\ IF ok
             THEN /\ pc' = IF pages_data = <<>> THEN "save" ELSE "page"
                  /\ result' = result
             ELSE /\ pc' = "done"
                  /\ result' = FALSE
    /\ UNCHANGED <<translation_cache, op, text, texts, batch_size, submitted,
                   document, pages_data, all_texts, translation_map, fitVars,
                   fontVars, preserve_formatting, page_idx, redactions,
                   replacements, loop_idx, output_written, apiVars, dlVars>>

\* the element loop of the page: fill redactions and replacements
PdfProcessElements ==
    /\ pc = "page"
    /\ LET e == page_edits(pages_data[page_idx + 1].text_elements,
                           translation_map, preserve_formatting)
       IN  /\ redactions' = e.redactions
           /\ replacements' = e.replacements
           /\ pc' = IF e.redactions # <<>> THEN "redact"
                    ELSE after_redactions(e.redactions, e.replacements)
    /\ loop_idx' = 0
    /\ UNCHANGED <<trVars, document, pages_data, all_texts, translation_map,
                   fitVars, fontVars, preserve_formatting, page_idx, calls,
                   output_written, apiVars, dlVars>>

\* for rect in redactions: page.add_redact_annot(rect)
PdfAddRedactAnnot ==
    /\ pc = "redact"
    /\ \E ok \in BOOLEAN :
          /\ calls' = Append(calls, Call("add_redact_annot", page_idx,
                                         redactions[loop_idx + 1],
                                         IF ok THEN "ok" ELSE "raises"))
          /\ IF ok
             THEN /\ IF loop_idx + 1 < Len(redactions)
                     THEN pc' = "redact" /\ loop_idx' = loop_idx + 1
                     ELSE pc' = after_redactions(redactions, replacements)
                             /\ loop_idx' = 0
                  /\ result' = result
             ELSE /\ pc' = "done"
                  /\ loop_idx' = loop_idx
                  /\ result' = FALSE
    /\ UNCHANGED <<translation_cache, op, text, texts, batch_size, submitted,
                   document, pages_data, all_texts, translation_map, fitVars,
                   fontVars, preserve_formatting, page_idx, redactions,
                   replacements, output_written, apiVars, dlVars>>

\* if redactions: page.apply_redactions()
PdfApplyRedactions ==
    /\ pc = "apply"
    /\ \E ok \in BOOLEAN :
          /\ calls' = Append(calls, Call("apply_redactions", page_idx, <<>>,
                                         IF ok THEN "ok" ELSE "raises"))
          /\ IF ok
             THEN /\ pc' = IF replacements # <<>> THEN "insert" ELSE "end_page"
                  /\ result' = result
             ELSE /\ pc' = "done"
                  /\ result' = FALSE
    /\ UNCHANGED <<translation_cache, op, text, texts, batch_size, submitted,
                   document, pages_data, all_texts, translation_map, fitVars,
                   fontVars, preserve_formatting, page_idx, redactions,
                   replacements, loop_idx, output_written, apiVars, dlVars>>

\* an insertion loop without the try/except: an insert_text that raises
\* ends create_translated_pdf in its outer except clause
PdfInsertText_unguarded ==
    /\ pc = "insert"
    /\ \E status \in {"ok", "negative", "raises"} :
          LET replacement == replacements[loop_idx + 1]
          IN  /\ calls' = Append(calls,
                    Call("insert_text", page_idx,
                         [point |-> replacement.point,
                          text |-> replacement.text,
                          fontname |-> replacement.font,
                          fontsize |-> replacement.font_size,
                          color |-> text_color(replacement.color)],
                         status))
              /\ IF status = "raises"
                 THEN pc' = "done" /\ loop_idx' = loop_idx /\ result' = FALSE
                 ELSE /\ IF loop_idx + 1 < Len(replacements)
                         THEN pc' = "insert" /\ loop_idx' = loop_idx + 1
                         ELSE pc' = "end_page" /\ loop_idx' = 0
                      /\ result' = result
    /\ UNCHANGED <<translation_cache, op, text, texts, batch_size, submitted,
                   document, pages_data, all_texts, translation_map,
                   fitVars, fontVars, preserve_formatting, page_idx,
                   redactions, replacements, output_written, apiVars, dlVars>>

\* for replacement in replacements: try: page.insert_text(...) except: warn
PdfInsertText ==
    /\ pc = "insert"
    /\ \E status \in {"ok", "negative", "raises"} :
          LET replacement == replacements[loop_idx + 1]
          IN  calls' = Append(calls,
                 Call("insert_text", page_idx,
                      [point |-> replacement.point,
                       text |-> replacement.text,
                       fontname |-> replacement.font,
                       fontsize |-> replacement.font_size,
                       color |-> text_color(replacement.color)],
                      status))
    /\ IF loop_idx + 1 < Len(replacements)
       THEN pc' = "insert" /\ loop_idx' = loop_idx + 1
       ELSE pc' = "end_page" /\ loop_idx' = 0
    /\ UNCHANGED <<trVars, document, pages_data, all_texts, translation_map,
                   fitVars, fontVars, preserve_formatting, page_idx,
                   redactions, replacements, output_written, apiVars, dlVars>>

\* a page loop that leaves for doc.save after its first page
PdfEndPage_saves_early ==
    /\ pc = "end_page"
    /\ pc' = "save"
    /\ UNCHANGED <<trVars, document, pages_data, all_texts, translation_map,
                   fitVars, fontVars, preserve_formatting, page_idx, redactions,
                   replacements, loop_idx, calls, output_written, apiVars, dlVars>>

\* the end of the page loop's body: on to the next page, or to doc.save
PdfEndPage ==
    /\ pc = "end_page"
    /\ IF page_idx + 1 < Len(pages_data)
       THEN pc' = "page" /\ page_idx' = page_idx + 1
       ELSE pc' = "save" /\ page_idx' = page_idx
    /\ UNCHANGED <<trVars, document, pages_data, all_texts, translation_map,
                   fitVars, fontVars, preserve_formatting, redactions,
                   replacements, loop_idx, calls, output_written, apiVars, dlVars>>

\* doc.save(output_path); doc.close(); return True
PdfSave ==
    /\ pc = "save"
    /\ \E ok \in BOOLEAN :
          /\ calls' = Append(calls, Call("save", -1, <<>>,
                                         IF ok THEN "ok" ELSE "raises"))
          /\ output_written' = ok
          /\ result' = ok
    /\ pc' = "done"
    /\ UNCHANGED <<translation_cache, op, text, texts, batch_size, submitted,
                   document, pages_data, all_texts, translation_map, fitVars,
                   fontVars, preserve_formatting, page_idx, redactions,
                   replacements, loop_idx, apiVars, dlVars>>

NextPdf ==
    \/ PdfLoadModel
    \/ PdfExtract
    \/ PdfTranslate
    \/ PdfOpen
    \/ PdfProcessElements
    \/ PdfAddRedactAnnot
    \/ PdfApplyRedactions
    \/ PdfInsertText
    \/ PdfEndPage
    \/ PdfSave

SpecPdf == InitPdf /\ [][NextPdf]_vars

----------------------------------------------------------------------------
(* src/src/api_server.py: the task table and the background job.  The      *)
(* request handlers are coroutines without an await between their reads    *)
(* and writes of translation_tasks, so each is one step; perform_          *)
(* translation is a plain function that BackgroundTasks runs in a worker   *)
(* thread, so each of its statements is a step that interleaves with the   *)
(* handlers and with the jobs of other tasks.  translate_pdf is the        *)
(* translator's: here it only returns True or False.                       *)

MaxTasks == 2       \* uploads accepted in a run (task ids are fresh uuid4s)

TaskIds == 1..MaxTasks

Statuses == {"queued", "processing", "completed", "failed"}

\* translation_tasks[task_id][key] = value, for a task in the table
SetField(tasks, t, key, value) ==
    [tasks EXCEPT ![t] = [tasks[t] EXCEPT ![key] = value]]

\* del translation_tasks[task_id]
Remove(tasks, t) == [k \in DOMAIN tasks \ {t} |-> tasks[k]]

Response(code, body) == [code |-> code, body |-> body]

InputFile(t) == <<t, "input">>

OutputFile(t) == <<t, "output">>

\* the API server leaves the state of the other components alone
ApiFrame == UNCHANGED <<trVars, pdfVars, fitVars, fontVars, createVars, dlVars>>

InitApi ==
    /\ translation_cache = EmptyCache
    /\ NoCall
    /\ NoPdf
    /\ NoFit
    /\ NoFont
    /\ NoCreate
    /\ NoDl
    /\ translation_tasks = <<>>
    /\ job = [t \in TaskIds |-> "none"]
    /\ files = {}
    /\ response = <<>>

\* POST /translate (lines 164-231): a rejected upload raises before anything
\* is stored; an accepted one gets a new task id
PostTranslate ==
    /\ ApiFrame
    /\ \E upload \in {"ok", "not_pdf", "too_large"} :
           IF upload = "not_pdf"
           THEN /\ response' = Response(400, <<>>)
                /\ UNCHANGED <<translation_tasks, job, files>>
           ELSE IF upload = "too_large"
           THEN /\ response' = Response(413, <<>>)
                /\ UNCHANGED <<translation_tasks, job, files>>
           ELSE /\ \E t \in TaskIds :
                     /\ job[t] = "none"
                     /\ \A u \in TaskIds : u < t => job[u] # "none"
                     /\ files' = files \cup {InputFile(t)}
                     /\ translation_tasks' =
                           [k \in DOMAIN translation_tasks \cup {t} |->
                               IF k = t
                               THEN [status |-> "queued", progress |-> 0,
                                     output_file |-> OutputFile(t),
                                     error |-> "absent"]
                               ELSE translation_tasks[k]]
                     /\ job' = [job EXCEPT ![t] = "line108"]
                     /\ response' = Response(200, [task_id |-> t, status |-> "queued"])

\* one statement of the try block that writes a field of the task: it is
\* done and the job goes on to `next`, or the task is gone and the KeyError
\* takes the job to the except clause
JobWrites(t, at, key, value, next) ==
    /\ job[t] = at
    /\ IF t \in DOMAIN translation_tasks
       THEN /\ translation_tasks' = SetField(translation_tasks, t, key, value)
            /\ job' = [job EXCEPT ![t] = next]
       ELSE /\ translation_tasks' = translation_tasks
            /\ job' = [job EXCEPT ![t] = "line131"]
    /\ UNCHANGED <<files, response>>
    /\ ApiFrame

\* translation_tasks[task_id]["status"] = "processing"
JobSetProcessing == \E t \in TaskIds : JobWrites(t, "line108", "status", "processing", "line109")

\* translation_tasks[task_id]["progress"] = 0
JobSetProgress == \E t \in TaskIds : JobWrites(t, "line109", "progress", 0, "line112")

\* success = translator.translate_pdf(...); if success: ... else: ...
JobTranslate ==
    \E t \in TaskIds, success \in BOOLEAN :
        /\ job[t] = "line112"
        /\ job' = [job EXCEPT ![t] = IF success THEN "line120" ELSE "line125"]
        /\ files' = IF success THEN files \cup {OutputFile(t)} ELSE files
        /\ UNCHANGED <<translation_tasks, response>>
        /\ ApiFrame

\* translation_tasks[task_id]["status"] = "completed"
JobSetCompleted == \E t \in TaskIds : JobWrites(t, "line120", "status", "completed", "line121")

\* translation_tasks[task_id]["progress"] = 100
JobSetProgress100 == \E t \in TaskIds : JobWrites(t, "line121", "progress", 100, "line122")

\* translation_tasks[task_id]["output_file"] = output_path
JobSetOutputFile ==
    \E t \in TaskIds : JobWrites(t, "line122", "output_file", OutputFile(t), "returned")

\* translation_tasks[task_id]["status"] = "failed"
JobSetFailed == \E t \in TaskIds : JobWrites(t, "line125", "status", "failed", "line126")

\* translation_tasks[task_id]["error"] = "Translation failed"
JobSetError ==
    \E t \in TaskIds : JobWrites(t, "line126", "error", "Translation failed", "returned")

\* the except clause (lines 129-132): its two writes; when the task is gone
\* the KeyError leaves perform_translation
JobExcept ==
    \E t \in TaskIds :
        /\ job[t] \in {"line131", "line132"}
        /\ IF t \in DOMAIN translation_tasks
           THEN IF job[t] = "line131"
                THEN /\ translation_tasks' =
                           SetField(translation_tasks, t, "status", "failed")
                     /\ job' = [job EXCEPT ![t] = "line132"]
                ELSE /\ translation_tasks' =
                           SetField(translation_tasks, t, "error", "KeyError")
                     /\ job' = [job EXCEPT ![t] = "returned"]
           ELSE /\ translation_tasks' = translation_tasks
                /\ job' = [job EXCEPT ![t] = "raised"]
        /\ UNCHANGED <<files, response>>
        /\ ApiFrame

\* GET /status/{task_id} (lines 233-252)
GetStatus ==
    \E t \in TaskIds :
        /\ response' =
              IF t \notin DOMAIN translation_tasks
              THEN Response(404, <<>>)
              ELSE Response(200, [task_id |-> t,
                                  status |-> translation_tasks[t].status,
                                  progress |-> translation_tasks[t].progress])
        /\ UNCHANGED <<translation_tasks, job, files>>
        /\ ApiFrame

\* DELETE /tasks/{task_id} (lines 294-312)
DeleteTask ==
    /\ ApiFrame
    /\ \E t \in TaskIds :
           IF t \notin DOMAIN translation_tasks
           THEN /\ response' = Response(404, <<>>)
                /\ UNCHANGED <<translation_tasks, job, files>>
           ELSE /\ files' = files \ {InputFile(t), translation_tasks[t].output_file}
                /\ translation_tasks' = Remove(translation_tasks, t)
                /\ response' = Response(200, [task_id |-> t, status |-> "deleted"])
                /\ UNCHANGED job

\* GET /download/{task_id} (lines 254-277)
DownloadTranslatedPdf ==
    \E t \in TaskIds :
        /\ response' =
              IF t \notin DOMAIN translation_tasks
              THEN Response(404, <<>>)
              ELSE IF translation_tasks[t].status # "completed"
              THEN Response(400, <<>>)
              ELSE IF translation_tasks[t].output_file \notin files
              THEN Response(404, <<>>)
              ELSE Response(200, [task_id |-> t,
                                  file |-> translation_tasks[t].output_file])
        /\ UNCHANGED <<translation_tasks, job, files>>
        /\ ApiFrame

\* cleanup_old_files (lines 88-101), the background task that follows a
\* perform_translation that returned: it unlinks the files that are old
\* enough, which may be any of them
CleanupOldFiles ==
    \E t \in TaskIds, old \in SUBSET files :
        /\ job[t] = "returned"
        /\ job' = [job EXCEPT ![t] = "finished"]
        /\ files' = files \ old
        /\ UNCHANGED <<translation_tasks, response>>
        /\ ApiFrame

NextApi ==
    \/ PostTranslate
    \/ JobSetProcessing
    \/ JobSetProgress
    \/ JobTranslate
    \/ JobSetCompleted
    \/ JobSetProgress100
    \/ JobSetOutputFile
    \/ JobSetFailed
    \/ JobSetError
    \/ JobExcept
    \/ GetStatus
    \/ DownloadTranslatedPdf
    \/ DeleteTask
    \/ CleanupOldFiles

SpecApi == InitApi /\ [][NextApi]_vars

----------------------------------------------------------------------------
(* src/offline_model_downloader.py: ModelDownloader.  A local file is      *)
(* "absent", "partial" (opened for writing, not written to the end) or     *)
(* "complete"; a file found when the run begins is taken to be complete.   *)
(* The server and the network are external: how an attempt ends is an      *)
(* input of the step that makes it.                                        *)

\* self.required_files (lines 24-32)
required_files ==
    <<"config.json", "pytorch_model.bin", "source.spm", "target.spm",
      "tokenizer_config.json", "vocab.json", "generation_config.json">>

RequiredFiles == {required_files[i] : i \in 1..Len(required_files)}

\* critical_files (line 116)
critical_files == {"config.json", "pytorch_model.bin", "tokenizer_config.json"}

\* the default of download_file's max_retries (line 41)
max_retries == 3

\* local_path.exists()
exists(fs, f) == fs[f] # "absent"

\* how one attempt of download_file can end: the file is written to the
\* end; urlopen raises HTTPError 404, or HTTPError with another code, or
\* another exception; or an exception is raised once the local file is open
AttemptOutcomes == {"ok", "http_404", "http_error", "urlopen_raises", "read_raises"}

\* the local file after an attempt that ended in `outcome`
after_attempt(state, outcome) ==
    CASE outcome = "ok" -> "complete"
      [] outcome = "read_raises" -> "partial"
      [] OTHER -> state

\* lines 126-133: missing_critical is empty
download_result(fs) == \A f \in critical_files : exists(fs, f)

InitDl ==
    /\ translation_cache = EmptyCache
    /\ NoCall
    /\ NoPdf
    /\ NoFit
    /\ NoFont
    /\ NoCreate
    /\ NoApi
    /\ local_files \in [RequiredFiles -> {"absent", "complete"}]
    /\ existed = {f \in RequiredFiles : exists(local_files, f)}
    /\ downloaded = {}
    /\ dl_pc = "file"
    /\ file_idx = 1
    /\ attempt = 0
    /\ success_count = 0
    /\ dl_result = <<>>

DlFrame == UNCHANGED <<trVars, pdfVars, fitVars, fontVars, createVars, apiVars>>

\* download_file is called for required_files[file_idx]: it returns True
\* at once when the local file exists, else it enters its attempt loop
DownloadFileBegin ==
    /\ dl_pc = "file"
    /\ IF exists(local_files, required_files[file_idx])
       THEN /\ success_count' = success_count + 1
            /\ IF file_idx < Len(required_files)
               THEN file_idx' = file_idx + 1 /\ dl_pc' = "file"
               ELSE file_idx' = file_idx /\ dl_pc' = "check"
       ELSE /\ success_count' = success_count
            /\ file_idx' = file_idx
            /\ dl_pc' = "attempt"
    /\ attempt' = 0
    /\ UNCHANGED <<local_files, existed, downloaded, dl_result>>
    /\ DlFrame

\* one iteration of `for attempt in range(max_retries)` (lines 52-101), and
\* the return of download_file when it is the last one
DownloadAttempt ==
    /\ dl_pc = "attempt"
    /\ attempt < max_retries
    /\ \E outcome \in AttemptOutcomes :
          LET f == required_files[file_idx]
              returns == outcome \in {"ok", "http_404"}
              gives_up == ~returns /\ attempt + 1 = max_retries
          IN  /\ local_files' =
                    [local_files EXCEPT ![f] = after_attempt(local_files[f], outcome)]
              /\ downloaded' = IF outcome = "ok" THEN downloaded \cup {f}
                               ELSE downloaded
              /\ success_count' = IF returns THEN success_count + 1
                                  ELSE success_count
              /\ IF returns \/ gives_up
                 THEN /\ attempt' = 0
                      /\ IF file_idx < Len(required_files)
                         THEN file_idx' = file_idx + 1 /\ dl_pc' = "file"
                         ELSE file_idx' = file_idx /\ dl_pc' = "check"
                 ELSE /\ attempt' = attempt + 1
                      /\ file_idx' = file_idx
                      /\ dl_pc' = "attempt"
    /\ UNCHANGED <<existed, dl_result>>
    /\ DlFrame

\* lines 126-133: return False when a critical file does not exist
DownloadAllReturn ==
    /\ dl_pc = "check"
    /\ dl_result' = download_result(local_files)
    /\ dl_pc' = "done"
    /\ UNCHANGED <<local_files, existed, downloaded, file_idx, attempt, success_count>>
    /\ DlFrame

NextDl == DownloadFileBegin \/ DownloadAttempt \/ DownloadAllReturn

SpecDl == InitDl /\ [][NextDl]_vars

----------------------------------------------------------------------------
(* Vocabulary of the properties. *)

\* trimmed length below the minimum (the empty string included)
TooShort(s) == Len(strip(s)) < 2

Chars == InputChars \cup Whitespace \cup {"e"}

IsString(s) == DOMAIN s = 1..Len(s) /\ \A i \in 1..Len(s) : s[i] \in Chars

\* what a successful translation of an entry puts at its position
Translated(s) == MarianMT(re_sub_ws(strip(s)))

\* the key translate_text looks a string up under
TextKey(s) == strip(re_sub_ws(strip(s)))

\* s was translated and cached before: by translate_text (under TextKey(s))
\* or by translate_batch (under strip(s))
Cached(s) ==
    strip(s) \in DOMAIN translation_cache \/ TextKey(s) \in DOMAIN translation_cache

CachedValue(s) ==
    IF strip(s) \in DOMAIN translation_cache
    THEN translation_cache[strip(s)]
    ELSE translation_cache[TextKey(s)]

\* chunk c of the current translate_batch call, its first position (from 1)
\* and the positions it covers
ChunkOf(c) == Chunk(texts, c * batch_size, batch_size)

ChunkPositions(c) ==
    {p \in 1..Len(texts) : c * batch_size < p /\ p <= (c + 1) * batch_size}

HasValid(c) == valid_texts(ChunkOf(c)) # <<>>

\* the index in `submitted` of the invocation chunk c made
InvocationOf(c) == Cardinality({d \in 0..c : HasValid(d)})

ChunkFailed(c) == HasValid(c) /\ ~submitted[InvocationOf(c)].ok

ChunkSucceeded(c) == HasValid(c) /\ submitted[InvocationOf(c)].ok

\* every string handed to the model by the current call
SentStrings ==
    UNION {{submitted[k].sent[m] : m \in 1..Len(submitted[k].sent)} :
           k \in 1..Len(submitted)}

----------------------------------------------------------------------------
\* C1: translate_batch returns a list of exactly len(texts) entries for
\* every input list and batch size, whatever chunks are short, succeed or
\* fail; translate_text returns exactly one string.
C1_LengthInvariant ==
    /\ op = "translate_batch" =>
          /\ Len(result) = Len(texts)
          /\ \A i \in 1..Len(result) : IsString(result[i])
    /\ op = "translate_text" => IsString(result)

C1_Witness ==
    /\ op = "translate_batch"
    /\ Len(texts) = 2
    /\ batch_size = 1
    /\ ChunkSucceeded(0)
    /\ ChunkFailed(1)
    /\ Len(result) = 2

\* C2: when the translator fails on one chunk, every position of that chunk
\* holds its original text, and every other chunk holds what it holds
\* without the failure: the translations of its entries.
C2_ChunkFallback ==
    op = "translate_batch" =>
        \A c \in ChunkNumbers(texts, batch_size) :
            \A p \in ChunkPositions(c) :
                IF ChunkSucceeded(c) /\ ~TooShort(texts[p])
                THEN result[p] = Translated(texts[p])
                ELSE result[p] = texts[p]

\* the first chunk is translated, the second fails and keeps its padded original
C2_Witness ==
    /\ op = "translate_batch"
    /\ Len(texts) = 2
    /\ batch_size = 1
    /\ ~TooShort(texts[1])
    /\ ~TooShort(texts[2])
    /\ strip(texts[2]) # texts[2]
    /\ ChunkSucceeded(0)
    /\ ChunkFailed(1)
    /\ result = <<Translated(texts[1]), texts[2]>>
    /\ result[1] # texts[1]

\* C3: when the translator fails inside translate_text(text), the call
\* returns the text exactly as it was passed in.
C3_FailureReturnsOriginal ==
    (op = "translate_text" /\ submitted # <<>> /\ ~submitted[1].ok)
        => result = text

\* C4 as stated: of two consecutive translate_text calls with the same
\* non-trivial string, the first of which had to ask the translator, the
\* second asks nothing and returns the cached value: one invocation in all.
C4_TwoCallsOneInvocation ==
    [][(/\ op = "translate_text"
        /\ op' = "translate_text"
        /\ text' = text
        /\ ~TooShort(text)
        /\ Len(submitted) = 1)
       => (/\ Len(submitted) + Len(submitted') = 1
           /\ TextKey(text) \in DOMAIN translation_cache'
           /\ result' = translation_cache'[TextKey(text)])]_vars

\* C4 amended: when the first call's invocation of the translator succeeds,
\* the second call asks nothing and returns the cached value, which is what
\* the first returned; when it fails, nothing is cached and the second call
\* asks the translator again.
C4_CacheIdempotence ==
    [][(/\ op = "translate_text"
        /\ op' = "translate_text"
        /\ text' = text
        /\ ~TooShort(text)
        /\ Len(submitted) = 1)
       => IF submitted[1].ok
          THEN /\ submitted' = <<>>
               /\ TextKey(text) \in DOMAIN translation_cache'
               /\ result' = translation_cache'[TextKey(text)]
               /\ result' = result
          ELSE Len(submitted') = 1]_vars

C4_Witness ==
    /\ op = "translate_text"
    /\ ~TooShort(text)
    /\ submitted = <<>>
    /\ TextKey(text) \in DOMAIN translation_cache
    /\ result = translation_cache[TextKey(text)]

\* C5: a string whose trimmed length is below 2 is returned unchanged by
\* translate_text, stays at its position in translate_batch, is never
\* handed to the translator and is never a key of the cache.
C5_ShortPassthrough ==
    /\ \A k \in DOMAIN translation_cache : ~TooShort(k)
    /\ \A s \in SentStrings : ~TooShort(s)
    /\ (op = "translate_text" /\ TooShort(text)) =>
          (result = text /\ submitted = <<>>)
    /\ op = "translate_batch" =>
          \A p \in 1..Len(texts) : TooShort(texts[p]) => result[p] = texts[p]

C5_Witness ==
    /\ op = "translate_batch"
    /\ \E p, q \in 1..Len(texts) :
          /\ {p, q} \subseteq ChunkPositions(0)
          /\ texts[p] # <<>> /\ TooShort(texts[p])
          /\ ~TooShort(texts[q])
          /\ result[p] = texts[p]
          /\ result[q] # texts[q]
    /\ translation_cache # EmptyCache

\* C6 as stated: every key of the cache is a trimmed, whitespace-collapsed
\* string of length >= 2.
C6_KeysCollapsed ==
    \A k \in DOMAIN translation_cache :
        strip(k) = k /\ re_sub_ws(k) = k /\ Len(k) >= min_text_length

\* C6 amended: every key of the cache is a trimmed string of length >= 2,
\* and the keys translate_text writes are whitespace-collapsed too (the
\* keys translate_batch writes are the trimmed originals).
C6_KeysTrimmed ==
    [][\A k \in DOMAIN translation_cache' :
          /\ strip(k) = k
          /\ Len(k) >= min_text_length
          /\ (k \notin DOMAIN translation_cache /\ op' = "translate_text")
                => re_sub_ws(k) = k]_vars

C6_Witness ==
    \E k \in DOMAIN translation_cache :
        /\ re_sub_ws(k) # k
        /\ strip(k) = k
        /\ re_sub_ws(k) \in DOMAIN translation_cache

\* C8: once a string is translated and cached (by translate_text under its
\* collapsed form, by translate_batch under its trimmed form), a later
\* translate_text or translate_batch call given the same string does not
\* hand it to the translator again and returns the cached translation.
C8_CacheHitShortCircuits ==
    [][/\ (op' = "translate_text" /\ ~TooShort(text') /\ Cached(text'))
            => (submitted' = <<>> /\ result' = CachedValue(text'))
       /\ op' = "translate_batch" =>
            \A p \in 1..Len(texts') :
                (~TooShort(texts'[p]) /\ Cached(texts'[p]))
                    => /\ result'[p] = CachedValue(texts'[p])
                       /\ re_sub_ws(strip(texts'[p])) \notin SentStrings']_vars

\* C9 as stated: for every font size > 0, adjusted_font_size lies in
\* [max(6, 0.7 * font_size), font_size].
C9_AdjustedInInterval ==
    fit_info # <<>> =>
        /\ RLe(RMax(FromInt(6), <<7 * fit_args.font_size, 10>>),
               fit_info.adjusted_font_size)
        /\ RLe(fit_info.adjusted_font_size, FromInt(fit_args.font_size))

\* C9 amended: for every font size >= 6, adjusted_font_size lies in
\* [max(6, 0.7 * font_size), font_size]; for a font size below 6 it is the
\* font size when the text fits or the box has no width, and 6 otherwise.
C9_AdjustedInIntervalFrom6 ==
    fit_info # <<>> =>
        IF fit_args.font_size >= 6
        THEN /\ RLe(RMax(FromInt(6), <<7 * fit_args.font_size, 10>>),
                    fit_info.adjusted_font_size)
             /\ RLe(fit_info.adjusted_font_size, FromInt(fit_args.font_size))
        ELSE IF fit_info.fits \/ fit_args.bbox[3] <= fit_args.bbox[1]
        THEN REq(fit_info.adjusted_font_size, FromInt(fit_args.font_size))
        ELSE REq(fit_info.adjusted_font_size, FromInt(6))

\* the floor binds: the scaled size is below max(6, 0.7 * font_size)
C9_Witness ==
    /\ fit_info # <<>>
    /\ fit_args.font_size = 12
    /\ ~fit_info.fits
    /\ REq(fit_info.adjusted_font_size, <<84, 10>>)
    /\ REq(fit_info.scale_factor, <<7, 10>>)

\* C10: for a fixed font size and bbox, a longer translated text never gets
\* a larger adjusted_font_size.
C10_FitMonotone ==
    fit_info # <<>> =>
        \A t2 \in FitTexts :
            Len(fit_args.translated_text) <= Len(t2) =>
                RLe(calculate_text_fit(fit_args.original_text, t2, fit_args.bbox,
                                       fit_args.font_size).adjusted_font_size,
                    fit_info.adjusted_font_size)

\* how often the string s was handed to the translator by the current call
TimesSubmitted(s) ==
    Cardinality({km \in UNION {{<<k, m>> : m \in 1..Len(submitted[k].sent)} :
                               k \in 1..Len(submitted)} :
                    submitted[km[1]].sent[km[2]] = s})

\* C7: in one translate_pdf run a text that appears in several elements is
\* handed to the translator once, and every element carrying that trimmed
\* text gets the one translation the map holds for it.
C7_TranslatedOnce ==
    pc = "create" =>
        \A p \in 1..Len(pages_data) :
            \A e \in 1..Len(pages_data[p].text_elements) :
                LET t == strip(pages_data[p].text_elements[e].text)
                IN  Len(t) >= min_text_length =>
                        /\ t \in DOMAIN translation_map
                        /\ TimesSubmitted(re_sub_ws(t)) = 1

\* C11: when translated_width (len * 0.6 * font_size) <= available_width
\* (x1 - x0), the result has fits = true, scale_factor = 1.0 and
\* adjusted_font_size = font_size; and fits is exactly that comparison,
\* whether or not the floor was applied.
C11_FitNoOp ==
    fit_info # <<>> =>
        LET within == 6 * Len(fit_args.translated_text) * fit_args.font_size
                         <= 10 * (fit_args.bbox[3] - fit_args.bbox[1])
        IN  /\ fit_info.fits = within
            /\ within => /\ REq(fit_info.scale_factor, FromInt(1))
                         /\ REq(fit_info.adjusted_font_size,
                                FromInt(fit_args.font_size))

\* a text that fits its box, and (second conjunct of the claim) the witness
\* of C9 is a state where the floor was applied and fits is false
C11_Witness ==
    /\ fit_info # <<>>
    /\ Len(fit_args.translated_text) > 0
    /\ fit_args.bbox[3] > fit_args.bbox[1]
    /\ fit_info.fits
    /\ REq(fit_info.scale_factor, FromInt(1))
    /\ REq(fit_info.adjusted_font_size, FromInt(fit_args.font_size))

\* the fonts get_suitable_font can return
KnownFonts == {Times_Roman, Helvetica, Arial, Courier}

HasAny(font, keywords) == \E k \in keywords : Contains(k, lower(font))

\* C12: for every font name get_suitable_font returns one of exactly four
\* fonts, decided by the first check that matches: exact table entry, then
\* times/serif -> Times-Roman, then helvetica/arial -> Helvetica, then
\* courier/mono -> Courier, otherwise Helvetica (substring, any case).
C12_FontResolution ==
    suitable_font # <<>> =>
        /\ suitable_font \in KnownFonts
        /\ suitable_font =
              CASE original_font \in KnownFonts -> original_font
                [] original_font \notin KnownFonts
                   /\ HasAny(original_font, {kw_times, kw_serif}) -> Times_Roman
                [] original_font \notin KnownFonts
                   /\ ~HasAny(original_font, {kw_times, kw_serif})
                   /\ HasAny(original_font, {kw_helvetica, kw_arial}) -> Helvetica
                [] original_font \notin KnownFonts
                   /\ ~HasAny(original_font, {kw_times, kw_serif, kw_helvetica, kw_arial})
                   /\ HasAny(original_font, {kw_courier, kw_mono}) -> Courier
                [] OTHER -> Helvetica

\* a name outside the table that matches two checks: the earlier one wins
C12_Witness ==
    /\ original_font \notin KnownFonts
    /\ HasAny(original_font, {kw_serif})
    /\ HasAny(original_font, {kw_mono})
    /\ suitable_font = Times_Roman

\* the positions of chunk c whose entry is long enough to be translated, and
\* the rank of such a position among them
Survivors(c) == {p \in ChunkPositions(c) : ~TooShort(texts[p])}

Rank(c, p) == Cardinality({q \in Survivors(c) : q <= p})

\* C17: translate_batch preserves positions: a short entry stays as it is
\* at its position; a chunk sends exactly its surviving entries to the
\* model, in their original order; and the k-th translation returned lands
\* at the original position of the k-th survivor.
C17_PositionsPreserved ==
    op = "translate_batch" =>
        /\ DOMAIN result = DOMAIN texts
        /\ \A p \in 1..Len(texts) : TooShort(texts[p]) => result[p] = texts[p]
        /\ \A c \in ChunkNumbers(texts, batch_size) :
              /\ Survivors(c) = {} <=> ~HasValid(c)
              /\ HasValid(c) =>
                    LET sent == submitted[InvocationOf(c)].sent
                    IN  /\ Len(sent) = Cardinality(Survivors(c))
                        /\ \A p \in Survivors(c) :
                              /\ sent[Rank(c, p)] = re_sub_ws(strip(texts[p]))
                              /\ ChunkSucceeded(c) =>
                                    result[p] = MarianMT(sent[Rank(c, p)])

\* a chunk whose first entry is short and whose second is translated: the
\* first translation returned belongs at position 2
C17_Witness ==
    /\ op = "translate_batch"
    /\ batch_size = 2
    /\ Len(texts) = 2
    /\ TooShort(texts[1])
    /\ Survivors(0) = {2}
    /\ ChunkSucceeded(0)
    /\ result[1] = texts[1]
    /\ result[2] = Translated(texts[2])
    /\ result[2] # texts[2]

\* the strings the model translated successfully in the step's call
TranslatedNow ==
    UNION {{submitted'[k].sent[m] : m \in 1..Len(submitted'[k].sent)} :
           k \in {j \in 1..Len(submitted') : submitted'[j].ok}}

ElementsProcessed == pc \in {"redact", "apply", "insert", "end_page"}

\* the elements of the page being rewritten
PageElements == pages_data[page_idx + 1].text_elements

HasEntry(element) == strip(element.text) \in DOMAIN translation_map

\* the element has an entry in translation_map that differs from its text
Changed(element) ==
    /\ HasEntry(element)
    /\ translation_map[strip(element.text)] # strip(element.text)

ChangedElements == SelectSeq(PageElements, Changed)

\* C13: an element whose translation equals its trimmed text, or whose
\* trimmed text has no entry in translation_map, adds no redaction and no
\* replacement; every other element adds one of each, in order, so the
\* page has as many redactions as replacements.
C13_NoOpSkip ==
    ElementsProcessed =>
        /\ Len(redactions) = Len(ChangedElements)
        /\ Len(replacements) = Len(ChangedElements)
        /\ \A k \in 1..Len(ChangedElements) :
              /\ redactions[k] = ChangedElements[k].bbox
              /\ replacements[k].text =
                    translation_map[strip(ChangedElements[k].text)]

\* the second page holds an element whose chunk failed (its translation is
\* the text itself) and a translated one; the first page held one too
\* short to have an entry
C13_Witness ==
    /\ pc = "end_page"
    /\ page_idx = 1
    /\ Len(PageElements) = 2
    /\ HasEntry(PageElements[1]) /\ ~Changed(PageElements[1])
    /\ Changed(PageElements[2])
    /\ \E e \in {pages_data[1].text_elements[k] :
                   k \in 1..Len(pages_data[1].text_elements)} : ~HasEntry(e)
    /\ Len(redactions) = 1
    /\ Len(replacements) = 1

\* the positions in `calls` of the calls of fn on page pg
CallsOf(fn, pg) ==
    {i \in 1..Len(calls) : calls[i].fn = fn /\ calls[i].page = pg}

PageNumbers == 0..(Len(pages_data) - 1)

\* the elements of page pg that get a redaction
ChangedOn(pg) == SelectSeq(pages_data[pg + 1].text_elements, Changed)

\* the page loop is past the redaction of page pg
PastRedaction(pg) ==
    \/ pg < page_idx
    \/ pg = page_idx /\ pc \in {"insert", "end_page", "save"}

\* C14: on each page apply_redactions is called at most once: once if the
\* page has a recorded redaction, never otherwise; it is called after every
\* redaction area of the page has been added, and every insert_text of the
\* page comes after it.
C14_OneApplyPerPage ==
    \A pg \in PageNumbers :
        /\ Cardinality(CallsOf("apply_redactions", pg)) <= 1
        /\ PastRedaction(pg) =>
              Cardinality(CallsOf("apply_redactions", pg))
                 = IF ChangedOn(pg) # <<>> THEN 1 ELSE 0
        /\ \A i \in CallsOf("apply_redactions", pg) :
              /\ Cardinality({j \in CallsOf("add_redact_annot", pg) : j < i})
                    = Len(ChangedOn(pg))
              /\ \A j \in CallsOf("add_redact_annot", pg) : j < i
        /\ \A i \in CallsOf("insert_text", pg) :
              \E j \in CallsOf("apply_redactions", pg) : j < i

\* a first page with text and nothing to redact, then a page with two
\* redactions, one apply and two insertions
C14_Witness ==
    /\ pc = "end_page"
    /\ page_idx = 1
    /\ pages_data[1].text_elements # <<>>
    /\ ChangedOn(0) = <<>>
    /\ CallsOf("apply_redactions", 0) = {}
    /\ Cardinality(CallsOf("add_redact_annot", 1)) = 2
    /\ Cardinality(CallsOf("apply_redactions", 1)) = 1
    /\ Cardinality(CallsOf("insert_text", 1)) = 2

\* the positions in `calls` of the insert_text calls that failed
FailedInsertions ==
    {i \in 1..Len(calls) : calls[i].fn = "insert_text" /\ calls[i].status # "ok"}

\* no call on the document other than an insert_text failed
OnlyInsertionsFailed ==
    \A i \in 1..Len(calls) :
        calls[i].fn # "insert_text" => calls[i].status = "ok"

\* C15: a failed insert_text (it raises, or returns a negative number) is
\* absorbed: the run does not end there, and a run in which nothing else
\* fails still attempts every replacement of every page, saves the
\* document and returns True.
C15_InsertionFailureAbsorbed ==
    /\ \A i \in FailedInsertions : i = Len(calls) => pc # "done" /\ result = <<>>
    /\ (pc = "done" /\ FailedInsertions # {} /\ OnlyInsertionsFailed) =>
          /\ result = TRUE
          /\ output_written
          /\ calls[Len(calls)].fn = "save"
          /\ \A pg \in PageNumbers :
                Cardinality(CallsOf("insert_text", pg)) = Len(ChangedOn(pg))

\* a finished run whose first insertion raised and whose second returned a
\* negative number, with an insertion on the next page after them
C15_Witness ==
    /\ pc = "done"
    /\ result = TRUE
    /\ output_written
    /\ \E i \in FailedInsertions, j \in FailedInsertions :
          /\ i < j
          /\ calls[i].status = "raises" /\ calls[i].page = 0
          /\ calls[j].status = "negative" /\ calls[j].page = 0
          /\ \E k \in CallsOf("insert_text", 1) : j < k

\* the positions in `calls` of the calls of fn, on any page
AllCallsOf(fn) == {i \in 1..Len(calls) : calls[i].fn = fn}

\* the document could not be opened, a page could not be scanned, or the
\* output could not be saved
OpenScanOrSaveFailed ==
    \E i \in AllCallsOf("open") \cup AllCallsOf("get_text") \cup AllCallsOf("save") :
        calls[i].status = "raises"

\* every page has gone through its redactions and insertions
EveryPageProcessed ==
    \A pg \in PageNumbers :
        /\ Cardinality(CallsOf("add_redact_annot", pg)) = Len(ChangedOn(pg))
        /\ Cardinality(CallsOf("insert_text", pg)) = Len(ChangedOn(pg))

\* C16: when the document cannot be opened, a page cannot be scanned or the
\* output cannot be saved, translate_pdf returns False and writes no
\* output; doc.save is called at most once in a run, as the last call, after
\* the extraction read every page without an error, after the translation,
\* and after every page was processed.
C16_FailureWritesNothing ==
    /\ OpenScanOrSaveFailed =>
          pc = "done" /\ result = FALSE /\ ~output_written
    /\ Cardinality(AllCallsOf("save")) <= 1
    /\ \A i \in AllCallsOf("save") :
          /\ i = Len(calls)
          /\ pc = "done"
          /\ \A j \in 1..(i - 1) :
                calls[j].fn \in {"open", "get_text"} => calls[j].status = "ok"
          /\ Cardinality(AllCallsOf("get_text")) = Len(document)
          /\ pages_data = extract_text_with_layout(document)
          /\ all_texts = collect_texts(pages_data)
          /\ Len(submitted) =
                Cardinality({c \in ChunkNumbers(all_texts, batch_size) :
                    valid_texts(Chunk(all_texts, c * batch_size, batch_size)) # <<>>})
          /\ EveryPageProcessed
    /\ output_written => result = TRUE /\ AllCallsOf("save") # {}

\* a run that rewrote a page and whose doc.save raised
C16_Witness ==
    /\ pc = "done"
    /\ result = FALSE
    /\ ~output_written
    /\ AllCallsOf("insert_text") # {}
    /\ calls[Len(calls)].fn = "save"
    /\ calls[Len(calls)].status = "raises"

\* extract_text_with_layout read every page of the document
ExtractionComplete ==
    /\ Cardinality(AllCallsOf("get_text")) = Len(document)
    /\ \A i \in AllCallsOf("get_text") : calls[i].status = "ok"
    /\ pages_data = extract_text_with_layout(document)

\* translate_batch went through every chunk of all_texts
TranslationComplete ==
    /\ all_texts = collect_texts(pages_data)
    /\ Len(submitted) =
          Cardinality({c \in ChunkNumbers(all_texts, batch_size) :
              valid_texts(Chunk(all_texts, c * batch_size, batch_size)) # <<>>})

\* the calls that rewrite or persist the document
RewriteCalls ==
    AllCallsOf("add_redact_annot") \cup AllCallsOf("apply_redactions")
        \cup AllCallsOf("insert_text") \cup AllCallsOf("save")

\* the order of the stages of translate_pdf
StageOf(at) ==
    CASE at = "load" -> 0
      [] at = "extract" -> 1
      [] at = "translate" -> 2
      [] at \in {"create", "page", "redact", "apply", "insert", "end_page"} -> 3
      [] at = "save" -> 4
      [] OTHER -> 5

\* C19: the stages of one translate_pdf run are strictly sequential: the
\* model is invoked only when every page has been extracted and before any
\* page is rewritten; a page is redacted or rewritten only when every chunk
\* has been translated; the output is saved only after the last page was
\* rewritten.
C19_StagesSequential ==
    [][ /\ StageOf(pc) <= StageOf(pc')
        /\ submitted' # submitted =>
              /\ submitted = <<>>
              /\ ExtractionComplete
              /\ RewriteCalls = {}
              /\ calls' = calls
        /\ (calls' # calls /\ calls'[Len(calls')].fn = "get_text") =>
              submitted' = <<>>
        /\ (calls' # calls /\ StageOf(pc) >= 3) =>
              /\ ExtractionComplete
              /\ TranslationComplete
              /\ submitted' = submitted
              /\ pages_data' = pages_data
        /\ (calls' # calls /\ calls'[Len(calls')].fn = "save") => pc = "save"
        /\ (pc # "save" /\ pc' = "save") =>
              /\ EveryPageProcessed
              /\ PageNumbers # {} => page_idx = Len(pages_data) - 1
      ]_vars

\* a finished run that read two pages, translated in two chunks, rewrote
\* both pages and saved the output
C19_Witness ==
    /\ pc = "done"
    /\ output_written
    /\ Len(pages_data) = 2
    /\ Len(submitted) = 2
    /\ CallsOf("insert_text", 0) # {}
    /\ CallsOf("insert_text", 1) # {}

\* the moves of a task's status the job may make
StatusMoves ==
    {<<"queued", "processing">>, <<"processing", "completed">>,
     <<"processing", "failed">>}

\* C20: every task of the table has a status among queued, processing,
\* completed, failed and an integer progress in 0..100; a status only moves
\* queued -> processing -> completed or failed, and stays once completed
\* or failed; progress is 100 exactly when the status is completed.
C20_TaskStatusInvariant ==
    [][ /\ \A t \in DOMAIN translation_tasks' :
              /\ translation_tasks'[t].status \in Statuses
              /\ translation_tasks'[t].progress \in 0..100
              /\ translation_tasks'[t].progress = 100
                    <=> translation_tasks'[t].status = "completed"
        /\ \A t \in DOMAIN translation_tasks \cap DOMAIN translation_tasks' :
              \/ translation_tasks'[t].status = translation_tasks[t].status
              \/ <<translation_tasks[t].status, translation_tasks'[t].status>>
                    \in StatusMoves
      ]_vars

\* perform_translation for task t is over, by a return or by an exception
JobOver(t) == job[t] \in {"returned", "finished", "raised"}

\* C21: under every interleaving of a task's perform_translation with
\* status, download and delete requests, perform_translation finishes
\* normally, also when the task is deleted while its job is queued or
\* processing; once it is over the task is recorded completed or failed, or
\* is no longer in the table; and a download answers with a file only for
\* a task whose status is completed.
C21_JobSurvivesRequests ==
    [][ /\ \A t \in TaskIds : job'[t] # "raised"
        /\ \A t \in TaskIds :
              JobOver(t)' =>
                 \/ t \notin DOMAIN translation_tasks'
                 \/ translation_tasks'[t].status \in {"completed", "failed"}
        /\ (response' # response /\ response'.code = 200
               /\ "file" \in DOMAIN response'.body) =>
              /\ response'.body.task_id \in DOMAIN translation_tasks
              /\ translation_tasks[response'.body.task_id].status = "completed"
              /\ response'.body.file \in files
      ]_vars

\* the file was there from the start, or an attempt wrote it to the end
CompletelyPresent(f) ==
    /\ local_files[f] = "complete"
    /\ f \in existed \/ f \in downloaded

\* C22: download_all_files returns True only if every critical file is
\* completely present locally: it already existed, or one of at most
\* max_retries attempts for it finished successfully; a critical file whose
\* every attempt failed, also after the local file was opened for writing,
\* makes it return False.
C22_TrueOnlyIfCriticalComplete ==
    /\ attempt < max_retries
    /\ dl_pc = "done" =>
          /\ dl_result = TRUE => \A f \in critical_files : CompletelyPresent(f)
          /\ (\E f \in critical_files : f \notin existed /\ f \notin downloaded)
                => dl_result = FALSE

====
